---- MODULE Spec2Model ----
(***************************************************************************)
(* A model of the Hubbard lattice-gas engine (src/hubbard.py, class        *)
(* Hubbard).  One engine object is modelled: its attributes are the        *)
(* variables, every public method is one action, and the random numbers a  *)
(* method consumes are the action's inputs.  The window that drives the   *)
(* engine (src/main.py, class MainWindow) and a second engine of the same  *)
(* process are modelled as far as they touch it.                           *)
(*                                                                         *)
(* Real numbers: u, t and electric_field_strength are kept in whole units  *)
(* resp. in units of 1/Scale; a draw random.random() in [0,1) is an        *)
(* integer r in 0..Scale-1 standing for r/Scale; np.exp is computed to     *)
(* 1/Scale by its power series.                                            *)
(***************************************************************************)
EXTENDS Integers, Sequences, FiniteSets, TLC

VARIABLES
    size,                     \* self.size
    u,                        \* self.u
    t,                        \* self.t
    num_electrons,            \* self.num_electrons
    electric_field_strength,  \* self.electric_field_strength, in 1/Scale
    lattice,                  \* self.lattice: None or an array indexed [spin, x, y]
    total_paired,             \* self.total_paired
    pairing_events,           \* self.pairing_events
    unpairing_events,         \* self.unpairing_events
    total_electrons,          \* self.total_electrons (no such attribute before the first reset)
    pc,                       \* "idle" between calls, "placing" inside initialize_lattice's loop
    electrons_placed,         \* the local electrons_placed of initialize_lattice
    moves,                    \* accepted moves since the lattice was made (bounds the exploration)
    last,                     \* what the most recent call did: method, exception, output, return
                              \* value, and the random numbers it took, in the order of the calls
    hubbard,                  \* MainWindow.hubbard: FALSE for None, TRUE for the engine above
    success_count,            \* MainWindow.success_count
    fail_count,               \* MainWindow.fail_count
    flux,                     \* MainWindow.flux
    slot_raised,              \* the exception the most recent MainWindow slot ended with
    generators,               \* the generators of the modules random and numpy.random, which
                              \* every engine of the process seeds and draws from
    alone,                    \* the generators as they are when only this engine's calls are made
    engine_b                  \* a second Hubbard object of the process: "none", "UNINITIALIZED", "READY"

vars == <<size, u, t, num_electrons, electric_field_strength, lattice,
          total_paired, pairing_events, unpairing_events, total_electrons,
          pc, electrons_placed, moves, last,
          hubbard, success_count, fail_count, flux, slot_raised,
          generators, alone, engine_b>>

config == <<size, u, t>>
counters == <<total_paired, pairing_events, unpairing_events, total_electrons>>
\* the attributes of the window (src/main.py), which no method of the engine touches
window == <<hubbard, success_count, fail_count, flux, slot_raised>>
\* what the engine shares with the other engines of its process
process == <<generators, alone, engine_b>>

----------------------------------------------------------------------------
(* Bounds of the exploration *)

\* a lattice is followed for this many accepted moves
MaxMoves == 2
\* initialize_lattice's loop on its own is explored with num_electrons in 0..MaxPlacing
\* (the capacity of a 2x2 lattice is 8)
MaxPlacing == 9
\* the window is followed until it has counted this many failed steps
MaxFails == 1
\* two engines are followed until a generator has given this many numbers
MaxTaken == 4

Sizes == {2, 3}
\* (u, t) pairs: u/t = 1 and u/t = 1/2
Couplings == {<<1, 1>>, <<2, 4>>}

Scale == 10 ^ 4
\* values of random.random(): 0.2, 0.5
Draws == {Scale \div 5, Scale \div 2}
\* values the caller gives electric_field_strength: 0.0, 0.5, 1.0
FieldStrengths == {0, Scale \div 2, Scale}

\* num_electrons of an engine of size n (a larger lattice is created with 0 or 1)
NumElectronsOf(n) == IF n = 2 THEN {0, 1, 2} ELSE {0, 1}

\* (u, t) of an engine of size n (a larger lattice is created with u = t = 1)
CouplingsOf(n) == IF n = 2 THEN Couplings ELSE {<<1, 1>>}

----------------------------------------------------------------------------
(* Values *)

\* Python's None where a lattice, a coordinate pair or an exception is expected
NoLattice == << >>
NoneSite == << >>
\* Python's None where a spin is expected
NoneSpin == -1
\* recorded for a random.random() that was not called
NoDraw == -1
\* the attribute total_electrons before reset_pairing_counters has created it
NoAttribute == -1

Cells(n) == {0, 1} \X (0 .. n - 1) \X (0 .. n - 1)
Sites(n) == (0 .. n - 1) \X (0 .. n - 1)

\* np.zeros((2, size, size), dtype=int)
Zeros(n) == [c \in Cells(n) |-> 0]

\* min(self.num_electrons, 2 * self.size ** 2)
PlacementTarget(k, n) == IF k < 2 * n * n THEN k ELSE 2 * n * n

\* the number of cells holding a non-zero value
Occupied(lat, n) == Cardinality({c \in Cells(n) : lat[c] > 0})

----------------------------------------------------------------------------
(* reset_pairing_counters: the full scan *)

ScanPaired(lat, n) ==
    2 * Cardinality({s \in Sites(n) : lat[<<0, s[1], s[2]>>] = 1 /\ lat[<<1, s[1], s[2]>>] = 1})

ScanElectrons(lat, n) ==
    2 * Cardinality({s \in Sites(n) : lat[<<0, s[1], s[2]>>] = 1 /\ lat[<<1, s[1], s[2]>>] = 1})
    + Cardinality({s \in Sites(n) :
          /\ ~(lat[<<0, s[1], s[2]>>] = 1 /\ lat[<<1, s[1], s[2]>>] = 1)
          /\ (lat[<<0, s[1], s[2]>>] = 1 \/ lat[<<1, s[1], s[2]>>] = 1)})

\* lines 90-91 left out: the event counters survive a new lattice
reset_keeps_events(lat) ==
    /\ total_paired' = ScanPaired(lat, size)
    /\ total_electrons' = ScanElectrons(lat, size)
    /\ UNCHANGED <<pairing_events, unpairing_events>>

\* the counters after reset_pairing_counters() on lattice lat
reset_pairing_counters(lat) ==
    /\ total_paired' = ScanPaired(lat, size)
    /\ pairing_events' = 0
    /\ unpairing_events' = 0
    /\ total_electrons' = ScanElectrons(lat, size)

----------------------------------------------------------------------------
(* What a call leaves behind for its caller *)

Returned(op) ==
    [op |-> op, raised |-> "None", printed |-> "", accepted |-> FALSE,
     source |-> NoneSite, spin |-> NoneSpin, target |-> NoneSite, r |-> NoDraw,
     field_draw |-> NoDraw, direction |-> NoneSite, calls |-> << >>]

Raised(op, exc) == [Returned(op) EXCEPT !.raised = exc]

Outcome(acc, src, s, tgt) ==
    [Returned("simulate_step") EXCEPT !.accepted = acc, !.source = src, !.spin = s, !.target = tgt]

----------------------------------------------------------------------------
(* __init__ *)

\* lines 26-27: random.seed(seed) and np.random.seed(seed); a generator is known
\* by its seed and the count of numbers taken from it since
Seeded(seed) == [py |-> <<seed, 0>>, np |-> <<seed, 0>>]

\* the process of an engine made with seed=None and no other engine
ProcessInit ==
    /\ generators = Seeded("None")
    /\ alone = Seeded("None")
    /\ engine_b = "none"

\* MainWindow.__init__ (main.py 19-24)
WindowInit ==
    /\ hubbard = FALSE
    /\ success_count = 0
    /\ fail_count = 0
    /\ flux = 0
    /\ slot_raised = "None"

Init ==
    /\ size \in Sizes
    /\ \E c \in CouplingsOf(size) : u = c[1] /\ t = c[2]
    /\ num_electrons \in NumElectronsOf(size)
    /\ electric_field_strength = 0
    /\ lattice = NoLattice
    /\ total_paired = 0
    /\ pairing_events = 0
    /\ unpairing_events = 0
    /\ total_electrons = NoAttribute
    /\ pc = "idle"
    /\ electrons_placed = 0
    /\ moves = 0
    /\ last = Returned("__init__")
    /\ WindowInit
    /\ ProcessInit

----------------------------------------------------------------------------
(* initialize_lattice, draw by draw (hubbard.py 29-45) *)

\* line 34-35: a fresh array and electrons_placed = 0; a target of 0 skips the loop
PlaceBegin ==
    /\ pc = "idle"
    /\ lattice' = Zeros(size)
    /\ electrons_placed' = 0
    /\ IF 0 < PlacementTarget(num_electrons, size)
       THEN /\ pc' = "placing"
            /\ last' = Returned("initialize_lattice:loop")
            /\ UNCHANGED counters
       ELSE /\ pc' = "idle"
            /\ last' = Returned("initialize_lattice")
            /\ reset_pairing_counters(lattice')
    /\ moves' = 0
    /\ UNCHANGED <<config, num_electrons, electric_field_strength>>

\* the test of line 40 left out
DrawFillsAlways(lat, c) == TRUE

\* line 40: the drawn cell is filled when it holds 0
DrawFills(lat, c) == lat[c] = 0

\* the loop bound without the cap by the capacity
PlaceMoreUncapped(placed, k, n) == placed < k

\* line 37: the loop goes on while this holds
PlaceMore(placed, k, n) == placed < PlacementTarget(k, n)

\* lines 38-42: one iteration, with the cell (spin, x, y) that was drawn;
\* the iteration that makes the loop condition false goes on to line 45
PlaceDraw(c) ==
    /\ pc = "placing"
    /\ c \in Cells(size)
    /\ IF DrawFills(lattice, c)
       THEN /\ lattice' = [lattice EXCEPT ![c] = 1]
            /\ electrons_placed' = electrons_placed + 1
       ELSE UNCHANGED <<lattice, electrons_placed>>
    /\ IF PlaceMore(electrons_placed', num_electrons, size)
       THEN UNCHANGED <<pc, last, counters>>
       ELSE /\ pc' = "idle"
            /\ last' = Returned("initialize_lattice")
            /\ reset_pairing_counters(lattice')
    /\ moves' = 0
    /\ UNCHANGED <<config, num_electrons, electric_field_strength>>

----------------------------------------------------------------------------
(* The initializers as single calls *)

\* the lattices initialize_lattice's loop can end with: every successful draw
\* fills one empty cell, so the loop ends with exactly `target` filled cells
Filled(cs, n) == [c \in Cells(n) |-> IF c \in cs THEN 1 ELSE 0]

RECURSIVE KSubsets(_, _)
KSubsets(S, k) ==
    IF k = 0 THEN {{}}
    ELSE IF Cardinality(S) < k THEN {}
    ELSE LET c == CHOOSE x \in S : TRUE
         IN  {T \cup {c} : T \in KSubsets(S \ {c}, k - 1)} \cup KSubsets(S \ {c}, k)

\* initialize_lattice() (hubbard.py 29-45), cs the cells its draws filled
initialize_lattice(cs) ==
    /\ pc = "idle"
    /\ lattice' = Filled(cs, size)
    /\ reset_pairing_counters(lattice')
    /\ last' = Returned("initialize_lattice")
    /\ moves' = 0
    /\ UNCHANGED <<config, num_electrons, electric_field_strength, pc, electrons_placed>>

\* explored for the values of num_electrons an engine of this size is created with
InitializeLattice ==
    /\ num_electrons \in NumElectronsOf(size)
    /\ \E cs \in KSubsets(Cells(size), PlacementTarget(num_electrons, size)) :
           initialize_lattice(cs)

\* stripes instead of a checkerboard
AfSpinStripes(x, y) == x % 2

\* line 62: the spin placed at (x, y)
AfSpin(x, y) == (x + y) % 2

\* lines 59-63
AfLattice(n) == [c \in Cells(n) |-> IF c[1] = AfSpin(c[2], c[3]) THEN 1 ELSE 0]

\* the size is not tested
AfRefusedNever(n) == FALSE

\* line 53
AfRefused(n) == n % 2 # 0

\* initialize_af() (hubbard.py 47-66)
initialize_af ==
    /\ pc = "idle"
    /\ IF AfRefused(size)
       THEN /\ last' = [Returned("initialize_af") EXCEPT
                           !.printed = "Error: Lattice size must be even for antiferromagnetic initialization."]
            /\ UNCHANGED <<num_electrons, lattice, counters, moves>>
       ELSE /\ num_electrons' = size * size
            /\ lattice' = AfLattice(size)
            /\ reset_pairing_counters(lattice')
            /\ last' = Returned("initialize_af")
            /\ moves' = 0
    /\ UNCHANGED <<config, electric_field_strength, pc, electrons_placed>>

\* the middle column of an odd lattice filled as well
LocalizedLatticeCeil(n) == [c \in Cells(n) |-> IF c[2] < (n + 1) \div 2 THEN 1 ELSE 0]

\* lines 74-80
LocalizedLattice(n) == [c \in Cells(n) |-> IF c[2] < n \div 2 THEN 1 ELSE 0]

\* initialize_localized() (hubbard.py 69-83)
initialize_localized ==
    /\ pc = "idle"
    /\ lattice' = LocalizedLattice(size)
    /\ num_electrons' = size * size
    /\ reset_pairing_counters(lattice')
    /\ last' = Returned("initialize_localized")
    /\ moves' = 0
    /\ UNCHANGED <<config, electric_field_strength, pc, electrons_placed>>

----------------------------------------------------------------------------
(* get_lattice() (hubbard.py 102-108) *)

\* an empty lattice taken for a missing one
NotInitializedOrEmpty(lat) == lat = NoLattice \/ \A c \in DOMAIN lat : lat[c] = 0

\* lines 106 and 115: self.lattice is None
NotInitialized(lat) == lat = NoLattice

get_lattice ==
    /\ pc = "idle"
    /\ last' = IF NotInitialized(lattice) THEN Raised("get_lattice", "ValueError")
                                      ELSE Returned("get_lattice")
    /\ UNCHANGED <<config, num_electrons, electric_field_strength, lattice, counters,
                   pc, electrons_placed, moves>>

\* the caller's assignment to electric_field_strength (main.py 305-311)
update_electric_field(value) ==
    /\ pc = "idle"
    /\ electric_field_strength' = value
    /\ UNCHANGED <<config, num_electrons, lattice, counters, pc, electrons_placed, moves, last>>

----------------------------------------------------------------------------
(* simulate_step() (hubbard.py 110-172) *)

\* the i-th index triple of the array in row-major order, i from 0
CellAt(i, n) == <<i \div (n * n), (i \div n) % n, i % n>>

\* line 119: np.argwhere(self.lattice > 0), the occupied index triples in row-major order
Argwhere(lat, n) ==
    SelectSeq([i \in 1 .. 2 * n * n |-> CellAt(i - 1, n)], LAMBDA c : lat[c] > 0)

\* the two lists exchanged
NeighborsSwapped(r, field) ==
    IF r < field
    THEN << <<0, 1>>, <<0, -1>>, <<1, 0>>, <<-1, 0>> >>
    ELSE << <<0, 1>>, <<0, -1>>, <<1, 0>>, <<1, 0>> >>

\* lines 127-131: the neighbour list for the field draw r
Neighbors(r, field) ==
    IF r < field
    THEN << <<0, 1>>, <<0, -1>>, <<1, 0>>, <<1, 0>> >>
    ELSE << <<0, 1>>, <<0, -1>>, <<1, 0>>, <<-1, 0>> >>

\* walls instead of a periodic boundary
WrapClamped(x, dx, n) == IF x + dx < 0 THEN 0 ELSE IF x + dx > n - 1 THEN n - 1 ELSE x + dx

\* lines 134-135: periodic boundary
Wrap(x, dx, n) == (x + dx) % n

\* lines 147-152
DeltaEnergy(companion_start, companion_target, uu) ==
    (IF companion_start = 1 THEN 0 - uu ELSE 0) + (IF companion_target = 1 THEN uu ELSE 0)

\* Scale * exp(a / b) for a >= 0, b > 0, by the power series (terms below 1/Scale dropped)
RECURSIVE ExpSeries(_, _, _, _)
ExpSeries(a, b, k, term) ==
    IF term = 0 THEN 0 ELSE term + ExpSeries(a, b, k + 1, (term * a) \div (b * k))

\* np.exp(-delta_energy / self.t), in 1/Scale
NpExp(delta, tt) ==
    IF delta >= 0 THEN (Scale * Scale) \div ExpSeries(delta, tt, 1, Scale)
    ELSE ExpSeries(0 - delta, tt, 1, Scale)

\* line 155: `or` evaluates random.random() only when delta_energy < 0 is false
AcceptanceDraws(delta) == IF delta < 0 THEN {NoDraw} ELSE Draws

\* a wrong sign in the exponent
MetropolisSignLost(delta, r, tt) == delta < 0 \/ r < NpExp(0 - delta, tt)

\* line 155: the Metropolis condition, r the value of random.random()
Metropolis(delta, r, tt) == delta < 0 \/ r < NpExp(delta, tt)

\* lines 161-167 written as if / elif
MovedPairedExclusive(paired, companion_start, companion_target) ==
    IF companion_start = 1 THEN paired - 2
    ELSE IF companion_target = 1 THEN paired + 2 ELSE paired

\* lines 161-167: total_paired after an accepted move
MovedPaired(paired, companion_start, companion_target) ==
    paired - (IF companion_start = 1 THEN 2 ELSE 0) + (IF companion_target = 1 THEN 2 ELSE 0)

\* the unpairing counted only when no pair forms at the target
MovedUnpairingSkipped(events, companion_start) == events

\* lines 161-163
MovedUnpairing(events, companion_start) == IF companion_start = 1 THEN events + 1 ELSE events

\* lines 165-167
MovedPairing(events, companion_target) == IF companion_target = 1 THEN events + 1 ELSE events

\* the source cell is not cleared
MovedCopy(lat, from, to) == [lat EXCEPT ![to] = 1]

\* the target cell is given the number of electrons on the site
MovedCount(lat, from, to) == [lat EXCEPT ![from] = 0, ![to] = 1 + lat[<<1 - to[1], to[2], to[3]>>]]

\* the electron lands in the other spin layer of the target site
MovedFlipped(lat, from, to) == [lat EXCEPT ![from] = 0, ![<<1 - to[1], to[2], to[3]>>] = 1]

\* lines 157-158
Moved(lat, from, to) == [lat EXCEPT ![from] = 0, ![to] = 1]

\* line 141: the hard-core test on the same-spin target cell
Excluded(target_state) == target_state = 1

\* line 123: np.random.randint(n) ranges over 0 .. n - 1
RandInt(n) == 0 .. n - 1

\* line 133: random.choice picks a position of the list
Choice(list) == {list[i] : i \in 1 .. Len(list)}

\* the random numbers of one step: the value of random.random() at line 127, the
\* (dx, dy) of random.choice at line 133, the value of random.random() at line 155
DrawsOf(rField, d, rAccept) == [field |-> rField, direction |-> d, accept |-> rAccept]

\* the acceptance draw made in every step, whether line 155 is reached or not
RngCallsAlwaysFour(rAccept) ==
    <<"np.random.randint", "random.random", "random.choice", "random.random">>

\* lines 123, 127, 133, 155: the calls to the random generators in the order made;
\* the last one only when line 155 evaluated its right operand
RngCalls(rAccept) ==
    IF rAccept = NoDraw
    THEN <<"np.random.randint", "random.random", "random.choice">>
    ELSE <<"np.random.randint", "random.random", "random.choice", "random.random">>

\* the return value (success, (x, y), spin, (target_x, target_y)) with the random
\* numbers the step consumed
StepOutcome(acc, from, to, drawn) ==
    [Outcome(acc, <<from[2], from[3]>>, from[1], <<to[2], to[3]>>) EXCEPT
        !.r = drawn.accept, !.field_draw = drawn.field, !.direction = drawn.direction,
        !.calls = RngCalls(drawn.accept)]

\* the move is written before the tests and not undone
StepFailsWritten(from, to, drawn) ==
    /\ last' = StepOutcome(FALSE, from, to, drawn)
    /\ lattice' = Moved(lattice, from, to)
    /\ UNCHANGED <<counters, moves>>

\* lines 142 and 172: return False with the proposal, nothing written
StepFails(from, to, drawn) ==
    /\ last' = StepOutcome(FALSE, from, to, drawn)
    /\ UNCHANGED <<lattice, counters, moves>>

\* lines 137-172, for the electron `from`, the field draw and the direction d
\* that were drawn
Attempt(from, rField, d) ==
    LET spin == from[1]
        x == from[2]
        y == from[3]
        target_x == Wrap(x, d[1], size)
        target_y == Wrap(y, d[2], size)
        to == <<spin, target_x, target_y>>
        companion_start == lattice[<<1 - spin, x, y>>]
        companion_target == lattice[<<1 - spin, target_x, target_y>>]
        delta_energy == DeltaEnergy(companion_start, companion_target, u)
    IN  IF Excluded(lattice[to])
        THEN StepFails(from, to, DrawsOf(rField, d, NoDraw))
        ELSE \E rAccept \in AcceptanceDraws(delta_energy) :
             IF Metropolis(delta_energy, rAccept, t)
             THEN /\ lattice' = Moved(lattice, from, to)
                  /\ unpairing_events' = MovedUnpairing(unpairing_events, companion_start)
                  /\ pairing_events' = MovedPairing(pairing_events, companion_target)
                  /\ total_paired' = MovedPaired(total_paired, companion_start, companion_target)
                  /\ UNCHANGED total_electrons
                  /\ last' = StepOutcome(TRUE, from, to, DrawsOf(rField, d, rAccept))
                  /\ moves' = moves + 1
             ELSE StepFails(from, to, DrawsOf(rField, d, rAccept))

\* a site is named though none is occupied
StepEmptyNamesSite ==
    /\ last' = Outcome(FALSE, <<0, 0>>, 0, <<0, 0>>)
    /\ UNCHANGED <<lattice, counters, moves>>

\* lines 120-121: return False, None, None, None
StepEmpty ==
    /\ last' = Outcome(FALSE, NoneSite, NoneSpin, NoneSite)
    /\ UNCHANGED <<lattice, counters, moves>>

\* simulate_step() (hubbard.py 110-172); the values of np.random.randint,
\* random.random() and random.choice are the inputs
simulate_step ==
    /\ pc = "idle"
    /\ IF NotInitialized(lattice)
       THEN /\ last' = Raised("simulate_step", "ValueError")
            /\ UNCHANGED <<lattice, counters, moves>>
       ELSE LET occupied_sites == Argwhere(lattice, size) IN
            IF Len(occupied_sites) = 0
            THEN StepEmpty
            ELSE /\ moves < MaxMoves
                 /\ \E site_idx \in RandInt(Len(occupied_sites)) :
                    \E rField \in Draws :
                    \E d \in Choice(Neighbors(rField, electric_field_strength)) :
                        Attempt(occupied_sites[site_idx + 1], rField, d)
    /\ UNCHANGED <<config, num_electrons, electric_field_strength, pc, electrons_placed>>

UpdateElectricField == \E value \in FieldStrengths : update_electric_field(value)

----------------------------------------------------------------------------
(* The window (src/main.py, class MainWindow).  Its engine is the one above;   *)
(* LATTICE_SIZE, U and T are the engine's size, u and t: the three spin boxes  *)
(* are left at the values the window starts with, and the field slider at 0.   *)
(* The display methods                                                         *)
(* (update_counters, setup_grid, update_grid, the highlights) only read the    *)
(* engine; of them the model keeps the exception get_lattice can raise.        *)

Modes == {"random", "af", "localized"}

\* main.py 186-191 on the new engine: the lattice the initializer of `mode` leaves,
\* cs the cells the random placement filled
ModeLattice(mode, cs) ==
    CASE mode = "random" -> Filled(cs, size)
      [] mode = "af" -> IF AfRefused(size) THEN NoLattice ELSE AfLattice(size)
      [] mode = "localized" -> LocalizedLattice(size)

\* MainWindow.initialize_lattice(mode) (main.py 167-201), k the value of the
\* electrons spin box: a new engine, its initializer, the counts reset, the display
MainWindow_initialize_lattice(mode, k, cs) ==
    /\ pc = "idle"
    /\ hubbard' = TRUE
    /\ lattice' = ModeLattice(mode, cs)
    /\ num_electrons' = IF mode = "random" \/ lattice' = NoLattice THEN k ELSE size * size
    /\ IF lattice' = NoLattice
       THEN /\ total_paired' = 0
            /\ pairing_events' = 0
            /\ unpairing_events' = 0
            /\ total_electrons' = NoAttribute
            /\ last' = Raised("get_lattice", "ValueError")
            /\ slot_raised' = "ValueError"
       ELSE /\ reset_pairing_counters(lattice')
            /\ last' = Returned(IF mode = "random" THEN "initialize_lattice"
                                 ELSE IF mode = "af" THEN "initialize_af"
                                 ELSE "initialize_localized")
            /\ slot_raised' = "None"
    /\ success_count' = 0
    /\ fail_count' = 0
    /\ flux' = 0
    /\ moves' = 0
    /\ UNCHANGED <<config, electric_field_strength, pc, electrons_placed>>

InitializeWindow ==
    \E mode \in Modes : \E k \in NumElectronsOf(size) :
    \E cs \in (IF mode = "random" THEN KSubsets(Cells(size), PlacementTarget(k, size))
                ELSE {{}}) :
        MainWindow_initialize_lattice(mode, k, cs)

\* main.py 239-242: the flux tally after an accepted move from x to target_x
FluxAfter(f, x, target_x, n) ==
    IF target_x = 0 /\ x = n - 1 THEN f + 1
    ELSE IF target_x = n - 1 /\ x = 0 THEN f - 1
    ELSE f

\* main.py 233-254 for what simulate_step did: an exception of the engine leaves
\* the slot; unpacking (x, y) and (target_x, target_y) from None raises TypeError
\* before anything is counted
StepCounted(o) ==
    IF o.raised # "None"
    THEN /\ slot_raised' = o.raised
         /\ UNCHANGED <<success_count, fail_count, flux>>
    ELSE IF o.source = NoneSite
    THEN /\ slot_raised' = "TypeError"
         /\ UNCHANGED <<success_count, fail_count, flux>>
    ELSE /\ slot_raised' = "None"
         /\ IF o.accepted
            THEN /\ success_count' = success_count + 1
                 /\ flux' = FluxAfter(flux, o.source[1], o.target[1], size)
                 /\ UNCHANGED fail_count
            ELSE /\ fail_count' = fail_count + 1
                 /\ UNCHANGED <<success_count, flux>>

\* MainWindow.perform_step (main.py 225-254)
perform_step ==
    /\ pc = "idle"
    /\ IF ~hubbard
       THEN /\ last' = [Returned("perform_step") EXCEPT !.printed = "Initialize the lattice first!"]
            /\ slot_raised' = "None"
            /\ UNCHANGED <<config, num_electrons, electric_field_strength, lattice, counters,
                           pc, electrons_placed, moves, success_count, fail_count, flux>>
       ELSE /\ simulate_step
            /\ StepCounted(last')
            /\ fail_count' <= MaxFails
    /\ UNCHANGED hubbard

----------------------------------------------------------------------------
(* Specifications *)

\* the engine driven by its callers, one whole call at a time
Next ==
    \/ InitializeLattice /\ UNCHANGED <<window, process>>
    \/ initialize_af /\ UNCHANGED <<window, process>>
    \/ initialize_localized /\ UNCHANGED <<window, process>>
    \/ get_lattice /\ UNCHANGED <<window, process>>
    \/ UpdateElectricField /\ UNCHANGED <<window, process>>
    \/ simulate_step /\ UNCHANGED <<window, process>>

Spec == Init /\ [][Next]_vars

\* initialize_lattice on its own, one loop iteration at a time
NextPlace ==
    \/ PlaceBegin /\ UNCHANGED <<window, process>>
    \/ \E c \in Cells(size) : PlaceDraw(c) /\ UNCHANGED <<window, process>>

\* __init__ with num_electrons up to beyond the capacity
InitPlace ==
    /\ size \in Sizes
    /\ \E c \in CouplingsOf(size) : u = c[1] /\ t = c[2]
    /\ num_electrons \in (IF size = 2 THEN 0 .. MaxPlacing ELSE NumElectronsOf(size))
    /\ electric_field_strength = 0
    /\ lattice = NoLattice
    /\ total_paired = 0
    /\ pairing_events = 0
    /\ unpairing_events = 0
    /\ total_electrons = NoAttribute
    /\ pc = "idle"
    /\ electrons_placed = 0
    /\ moves = 0
    /\ last = Returned("__init__")
    /\ WindowInit
    /\ ProcessInit

\* the window driven by its user: the three initialize buttons and the step
\* button (or the autoplay timer)
NextWindow ==
    \/ InitializeWindow /\ UNCHANGED process
    \/ perform_step /\ UNCHANGED process

\* MainWindow.__init__ (main.py 12-24): no engine yet, U = T = 1.0, no field; the
\* engine's variables hold what its constructor will be given
InitWindow ==
    /\ size \in Sizes
    /\ u = 1
    /\ t = 1
    /\ num_electrons \in NumElectronsOf(size)
    /\ electric_field_strength = 0
    /\ lattice = NoLattice
    /\ total_paired = 0
    /\ pairing_events = 0
    /\ unpairing_events = 0
    /\ total_electrons = NoAttribute
    /\ pc = "idle"
    /\ electrons_placed = 0
    /\ moves = 0
    /\ last = Returned("__init__")
    /\ WindowInit
    /\ ProcessInit

SpecWindow == InitWindow /\ [][NextWindow]_vars

----------------------------------------------------------------------------
(* Two engines in one process.  The engine above is A; of the second engine, B, *)
(* the model keeps what reaches A: its calls to the two generators.             *)

Seeds == {1, 2}

\* the generators after a step that made `calls`: np.random gave one number per
\* call of np.random.randint, random one per call of random.random or random.choice
Taken(g, calls) ==
    LET np_calls == Len(SelectSeq(calls, LAMBDA c : c = "np.random.randint"))
    IN  [py |-> <<g.py[1], g.py[2] + Len(calls) - np_calls>>,
         np |-> <<g.np[1], g.np[2] + np_calls>>]

\* A.simulate_step(): lines 123-155 take their numbers from the generators of the
\* process, wherever earlier calls of any engine have left them
SharedStep ==
    /\ alone.py[2] < MaxTaken
    /\ simulate_step
    /\ generators' = Taken(generators, last'.calls)
    /\ alone' = Taken(alone, last'.calls)
    /\ UNCHANGED <<engine_b, window>>

\* A.initialize_af() or A.initialize_localized(), which take no random number
SharedInitialize ==
    /\ initialize_af \/ initialize_localized
    /\ UNCHANGED <<process, window>>

\* B = Hubbard(..., seed=seed): lines 26-27 seed the generators of the process
ConstructB(seed) ==
    /\ pc = "idle"
    /\ engine_b = "none"
    /\ generators' = Seeded(seed)
    /\ engine_b' = "UNINITIALIZED"
    /\ UNCHANGED <<config, num_electrons, electric_field_strength, lattice, counters,
                   pc, electrons_placed, moves, last, window, alone>>

\* B.initialize_af() or B.initialize_localized() on an even size
InitializeB ==
    /\ pc = "idle"
    /\ engine_b = "UNINITIALIZED"
    /\ engine_b' = "READY"
    /\ UNCHANGED <<config, num_electrons, electric_field_strength, lattice, counters,
                   pc, electrons_placed, moves, last, window, generators, alone>>

\* B.simulate_step() on its lattice, which holds electrons: three calls or four
StepB(calls) ==
    /\ pc = "idle"
    /\ engine_b = "READY"
    /\ generators.py[2] < MaxTaken
    /\ generators' = Taken(generators, calls)
    /\ UNCHANGED <<config, num_electrons, electric_field_strength, lattice, counters,
                   pc, electrons_placed, moves, last, window, alone, engine_b>>

NextShared ==
    \/ SharedInitialize
    \/ SharedStep
    \/ \E seed \in Seeds : ConstructB(seed)
    \/ InitializeB
    \/ \E calls \in {RngCalls(NoDraw), RngCalls(0)} : StepB(calls)

\* A = Hubbard(size=2, u=1, t=1, seed=seed)
InitShared ==
    /\ size = 2
    /\ u = 1
    /\ t = 1
    /\ num_electrons = 0
    /\ electric_field_strength = 0
    /\ lattice = NoLattice
    /\ total_paired = 0
    /\ pairing_events = 0
    /\ unpairing_events = 0
    /\ total_electrons = NoAttribute
    /\ pc = "idle"
    /\ electrons_placed = 0
    /\ moves = 0
    /\ last = Returned("__init__")
    /\ WindowInit
    /\ \E seed \in Seeds : generators = Seeded(seed) /\ alone = Seeded(seed)
    /\ engine_b = "none"

SpecShared == InitShared /\ [][NextShared]_vars

SpecPlace == InitPlace /\ [][NextPlace]_vars

\* the loop with a random source that draws every cell again and again
AllCells == UNION {Cells(n) : n \in Sizes}
FairPlace == SpecPlace /\ \A c \in AllCells : WF_vars(PlaceDraw(c) /\ UNCHANGED <<window, process>>)

----------------------------------------------------------------------------
(* Properties *)

\* a call of simulate_step that returned (a call that leaves every variable as it
\* was, `last` included, is a stuttering step)
StepReturned == last' # last /\ last'.op = "simulate_step" /\ last'.raised = "None"

\* the cell the returned outcome names as source, resp. target
SourceCell(o) == <<o.spin, o.source[1], o.source[2]>>
TargetCell(o) == <<o.spin, o.target[1], o.target[2]>>
\* the opposite-spin cell of the same site
Companion(c) == <<1 - c[1], c[2], c[3]>>

\* sites with both spin layers occupied, counted cell by cell
DoublyOccupied(lat, n) ==
    Cardinality({c \in Cells(n) : c[1] = 0 /\ lat[c] = 1 /\ lat[Companion(c)] = 1})

\* C1: between calls, whatever initializer and steps came before, total_paired
\* is twice the number of sites with both layers occupied
C1_PairingConsistency ==
    (pc = "idle" /\ lattice # NoLattice) => total_paired = 2 * DoublyOccupied(lattice, size)

\* C1 witness: two accepted moves, one that broke a pair and one that formed one
C1_Witness ==
    /\ moves = 2
    /\ pairing_events = 1
    /\ unpairing_events = 1
    /\ total_paired = 2 * DoublyOccupied(lattice, size)

\* C2: every cell of an initialized lattice holds 0 or 1
C2_OccupancyBound ==
    lattice # NoLattice =>
        /\ DOMAIN lattice = Cells(size)
        /\ \A c \in Cells(size) : lattice[c] \in {0, 1}

\* C2 witness: an accepted move has just put an electron on a site whose other
\* layer is occupied
C2_Witness ==
    /\ last.op = "simulate_step"
    /\ last.accepted
    /\ lattice[TargetCell(last)] = 1
    /\ lattice[Companion(TargetCell(last))] = 1

\* C3: an accepted step finds its source cell at 1 and its target cell at 0,
\* leaves the source at 0 and the target at 1, and writes no other cell
C3_AcceptedMove ==
    [][(StepReturned /\ last'.accepted) =>
          LET from == SourceCell(last')
              to == TargetCell(last')
          IN  /\ lattice[from] = 1
              /\ lattice[to] = 0
              /\ lattice'[from] = 0
              /\ lattice'[to] = 1
              /\ \A c \in Cells(size) \ {from, to} : lattice'[c] = lattice[c]]_vars

\* C3 witness: after an accepted step the returned source is empty and the target full
C3_Witness ==
    /\ last.op = "simulate_step"
    /\ last.accepted
    /\ lattice[SourceCell(last)] = 0
    /\ lattice[TargetCell(last)] = 1
    /\ moves = 1

\* C4: a step that returns accepted = False leaves the lattice and the four
\* counters as they were, and names an occupied source, its spin and a target
\* whenever the lattice held an electron
C4_RejectedStep ==
    [][(StepReturned /\ ~last'.accepted) =>
          /\ lattice' = lattice
          /\ total_paired' = total_paired
          /\ pairing_events' = pairing_events
          /\ unpairing_events' = unpairing_events
          /\ total_electrons' = total_electrons
          /\ Occupied(lattice, size) > 0 =>
                /\ last'.source \in Sites(size)
                /\ last'.spin \in {0, 1}
                /\ last'.target \in Sites(size)
                /\ lattice[SourceCell(last')] = 1]_vars

\* C4 witness: a step rejected because the same-spin target cell is occupied,
\* on a lattice that holds a pair
C4_Witness ==
    /\ last.op = "simulate_step"
    /\ ~last.accepted
    /\ last.source # NoneSite
    /\ last.r = NoDraw
    /\ lattice[TargetCell(last)] = 1
    /\ total_paired > 0

\* u * companion_target - u * companion_start for the proposal o on lattice lat
ProposalDelta(lat, o) ==
    u * lat[Companion(TargetCell(o))] - u * lat[Companion(SourceCell(o))]

\* exp(-1) = 0.36787..., exp(-1/2) = 0.60653...: a draw of at most ExpBelow / Scale
\* is below exp(-delta / tt), a draw of at least ExpBelow / Scale + 1 / Scale is not
ExpBelow(delta, tt) ==
    CASE delta = tt -> 3678
      [] 2 * delta = tt -> 6065

\* C5: a proposal whose same-spin target is empty is accepted when delta < 0
\* (no draw is even made) and when delta = 0; with delta > 0 it is accepted when
\* the draw is below exp(-delta/t) and rejected, the lattice unchanged, when not
C5_Metropolis ==
    [][(StepReturned /\ last'.source # NoneSite /\ lattice[TargetCell(last')] = 0) =>
          LET delta == ProposalDelta(lattice, last')
          IN  /\ delta < 0 => last'.accepted /\ last'.r = NoDraw
              /\ delta = 0 => last'.accepted
              /\ delta > 0 =>
                    /\ last'.r \in 0 .. Scale - 1
                    /\ last'.r <= ExpBelow(delta, t) => last'.accepted
                    /\ last'.r > ExpBelow(delta, t) => ~last'.accepted /\ lattice' = lattice
                    /\ (u = 1 /\ t = 1 /\ last'.r = Scale \div 2) => ~last'.accepted
                    /\ (u = 1 /\ t = 1 /\ last'.r = Scale \div 5) => last'.accepted]_vars

\* C5 witness: u = t = 1, a move onto a site with a companion drew 0.5 and was rejected
C5_Witness ==
    /\ last.op = "simulate_step"
    /\ ~last.accepted
    /\ last.r = Scale \div 2
    /\ u = 1
    /\ t = 1
    /\ lattice[TargetCell(last)] = 0
    /\ ProposalDelta(lattice, last) > 0

\* C6: an accepted move counts an unpairing (and takes 2 off total_paired) when
\* the source site's other layer was occupied, and counts a pairing (and adds 2)
\* when the target site's other layer was occupied, each on its own
C6_PairingCounters ==
    [][(StepReturned /\ last'.accepted) =>
          LET leaves == lattice[Companion(SourceCell(last'))] = 1
              joins == lattice[Companion(TargetCell(last'))] = 1
          IN  /\ unpairing_events' = unpairing_events + (IF leaves THEN 1 ELSE 0)
              /\ pairing_events' = pairing_events + (IF joins THEN 1 ELSE 0)
              /\ total_paired' = total_paired - (IF leaves THEN 2 ELSE 0) + (IF joins THEN 2 ELSE 0)
              /\ (leaves /\ joins) => total_paired' = total_paired
              /\ (~leaves /\ ~joins) =>
                    /\ total_paired' = total_paired
                    /\ pairing_events' = pairing_events
                    /\ unpairing_events' = unpairing_events]_vars

\* C6 witness: three events in two accepted moves, so one move broke a pair and
\* formed another
C6_Witness ==
    /\ moves = 2
    /\ pairing_events + unpairing_events = 3
    /\ last.accepted

\* C7: initialize_lattice returns with min(num_electrons, 2 * size^2) occupied
\* cells, and total_electrons is that number
C7_RandomCount ==
    (pc = "idle" /\ last.op = "initialize_lattice") =>
        LET capacity == 2 * size * size
            placed == IF num_electrons <= capacity THEN num_electrons ELSE capacity
        IN  /\ Occupied(lattice, size) = placed
            /\ total_electrons = placed
            /\ num_electrons = 0 => lattice = Zeros(size)
            /\ num_electrons >= capacity => \A c \in Cells(size) : lattice[c] = 1

\* C7 witness: 9 electrons asked of a 2x2 lattice, which holds 8
C7_Witness ==
    /\ pc = "idle"
    /\ last.op = "initialize_lattice"
    /\ size = 2
    /\ num_electrons = 9
    /\ \A c \in Cells(2) : lattice[c] = 1
    /\ total_electrons = 8

\* C8: with a random source that keeps drawing every cell, the placement loop
\* ends, also when num_electrons exceeds the capacity
C8_PlacementTerminates ==
    (pc = "placing") ~> (pc = "idle" /\ last.op = "initialize_lattice")

\* C8 witness: the loop has ended having placed the capacity, fewer than asked
C8_Witness ==
    /\ pc = "idle"
    /\ last.op = "initialize_lattice"
    /\ num_electrons > 2 * size * size
    /\ electrons_placed = 2 * size * size

\* C9: after initialize_af on an even size every site holds one electron, of
\* spin (x + y) mod 2; total_paired = 0, total_electrons = num_electrons = size^2
C9_AfStructure ==
    (last.op = "initialize_af" /\ size % 2 = 0) =>
        /\ \A s \in Sites(size) :
              /\ lattice[<<((s[1] + s[2]) % 2), s[1], s[2]>>] = 1
              /\ lattice[<<1 - ((s[1] + s[2]) % 2), s[1], s[2]>>] = 0
        /\ total_paired = 0
        /\ total_electrons = size * size
        /\ num_electrons = size * size

\* C9 witness: the 2x2 checkerboard
C9_Witness ==
    /\ last.op = "initialize_af"
    /\ size = 2
    /\ lattice[<<0, 0, 0>>] = 1
    /\ lattice[<<1, 0, 1>>] = 1
    /\ lattice[<<1, 1, 0>>] = 1
    /\ lattice[<<0, 1, 1>>] = 1
    /\ total_electrons = 4

\* a call of initialize_af on an odd size
AfCalledOdd == last' # last /\ last'.op = "initialize_af" /\ size % 2 # 0

\* what initialize_af on an odd size must leave alone
AfLeavesState ==
    /\ lattice' = lattice
    /\ total_paired' = total_paired
    /\ pairing_events' = pairing_events
    /\ unpairing_events' = unpairing_events
    /\ num_electrons' = num_electrons

\* still uninitialized after the refused call: the next simulate_step or
\* get_lattice raises the not-initialized error
AfLeavesUninitialized ==
    (lattice = NoLattice /\ last.op = "initialize_af"
        /\ last' # last /\ last'.op \in {"simulate_step", "get_lattice"}) =>
            last'.raised = "ValueError" /\ lattice' = NoLattice

\* C10 as claimed: initialize_af on an odd size reports a ConfigurationError to
\* its caller and leaves the state unchanged
C10_AsClaimed ==
    [][/\ AfCalledOdd => last'.raised = "ConfigurationError" /\ AfLeavesState
       /\ AfLeavesUninitialized]_vars

\* C10 amended: initialize_af on an odd size prints an error message and returns
\* normally, raising nothing, and leaves the state unchanged; an engine it was
\* the first initializer call of is still uninitialized
C10_AfRefusedOdd ==
    [][/\ AfCalledOdd =>
            /\ last'.raised = "None"
            /\ last'.printed # ""
            /\ AfLeavesState
       /\ AfLeavesUninitialized]_vars

\* C10 witness: a 3x3 lattice made by initialize_localized is still there after
\* the refused call
C10_Witness ==
    /\ size = 3
    /\ last.op = "initialize_af"
    /\ last.printed # ""
    /\ lattice = LocalizedLattice(3)
    /\ total_paired = 6
    /\ num_electrons = 9

\* C11: after initialize_localized, on an even or an odd size, both layers are
\* occupied at every site with x < size div 2 and empty at every other site;
\* total_paired = 2 * (size div 2) * size and num_electrons = size^2
C11_LocalizedStructure ==
    last.op = "initialize_localized" =>
        /\ \A s \in Sites(size) :
              IF s[1] <= (size \div 2) - 1
              THEN lattice[<<0, s[1], s[2]>>] = 1 /\ lattice[<<1, s[1], s[2]>>] = 1
              ELSE lattice[<<0, s[1], s[2]>>] = 0 /\ lattice[<<1, s[1], s[2]>>] = 0
        /\ total_paired = 2 * (size \div 2) * size
        /\ num_electrons = size * size
        /\ pairing_events = 0
        /\ unpairing_events = 0

\* C11 witness: the odd size 3, one full column of three sites and two empty ones
C11_Witness ==
    /\ last.op = "initialize_localized"
    /\ size = 3
    /\ total_paired = 6
    /\ total_electrons = 6
    /\ num_electrons = 9
    /\ lattice[<<0, 0, 2>>] = 1
    /\ lattice[<<1, 1, 0>>] = 0

\* a call of simulate_step or get_lattice that came back, by return or by exception
QueryCalled == last' # last /\ last'.op \in {"simulate_step", "get_lattice"}

\* C13: on an engine no initializer has succeeded on, simulate_step and
\* get_lattice raise the not-initialized error and change nothing; an engine
\* that has a lattice keeps one through every later call, and on it the two
\* never raise
C13_StateMachine ==
    [][/\ (QueryCalled /\ lattice = NoLattice) =>
             /\ last'.raised = "ValueError"
             /\ lattice' = NoLattice
             /\ total_paired' = total_paired
             /\ pairing_events' = pairing_events
             /\ unpairing_events' = unpairing_events
             /\ total_electrons' = total_electrons
             /\ num_electrons' = num_electrons
             /\ electric_field_strength' = electric_field_strength
       /\ (QueryCalled /\ lattice # NoLattice) => last'.raised = "None"
       /\ lattice # NoLattice => lattice' # NoLattice
       /\ (lattice = NoLattice /\ lattice' # NoLattice) =>
             /\ last'.op \in {"initialize_lattice", "initialize_af", "initialize_localized"}
             /\ last'.printed = ""]_vars

\* C13 witness: get_lattice has returned on an engine that has run two accepted moves
C13_Witness ==
    /\ last.op = "get_lattice"
    /\ last.raised = "None"
    /\ lattice # NoLattice
    /\ moves = 2

\* C14: on a lattice without an occupied cell simulate_step raises nothing and
\* returns False with source, spin and target None, lattice and counters as
\* they were; on any other lattice the three are not None and the source cell
\* was occupied
C14_NoneOccupied ==
    [][/\ (last' # last /\ last'.op = "simulate_step" /\ lattice # NoLattice) =>
             last'.raised = "None"
       /\ (StepReturned /\ Occupied(lattice, size) = 0) =>
             /\ ~last'.accepted
             /\ last'.source = NoneSite
             /\ last'.spin = NoneSpin
             /\ last'.target = NoneSite
             /\ lattice' = lattice
             /\ total_paired' = total_paired
             /\ pairing_events' = pairing_events
             /\ unpairing_events' = unpairing_events
             /\ total_electrons' = total_electrons
       /\ (StepReturned /\ Occupied(lattice, size) > 0) =>
             /\ last'.source \in Sites(size)
             /\ last'.spin \in {0, 1}
             /\ last'.target \in Sites(size)
             /\ lattice[SourceCell(last')] = 1]_vars

\* C14 witness: a step on the lattice initialize_lattice made of 0 electrons
C14_Witness ==
    /\ last.op = "simulate_step"
    /\ last.raised = "None"
    /\ last.source = NoneSite
    /\ last.spin = NoneSpin
    /\ last.target = NoneSite
    /\ num_electrons = 0
    /\ lattice = Zeros(size)
    /\ total_electrons = 0

\* an initializer that came back having made a lattice
InitializerSucceeded ==
    /\ last'.op \in {"initialize_lattice", "initialize_af", "initialize_localized"}
    /\ last'.printed = ""
    /\ electric_field_strength' = electric_field_strength

\* C15: a simulate_step leaves pairing_events and unpairing_events as they were
\* or one higher, and as they were when it returns False; the two change only
\* by an accepted move or by a successful initializer, which sets them to 0 and
\* total_paired and total_electrons to what the new lattice holds
C15_EventCounters ==
    [][/\ (last' # last /\ last'.op = "simulate_step") =>
             /\ pairing_events' \in {pairing_events, pairing_events + 1}
             /\ unpairing_events' \in {unpairing_events, unpairing_events + 1}
             /\ ~last'.accepted =>
                   pairing_events' = pairing_events /\ unpairing_events' = unpairing_events
       /\ (pairing_events' # pairing_events \/ unpairing_events' # unpairing_events) =>
             \/ StepReturned /\ last'.accepted
             \/ InitializerSucceeded
       /\ (pairing_events' < pairing_events \/ unpairing_events' < unpairing_events) =>
             InitializerSucceeded
       /\ InitializerSucceeded =>
             /\ pairing_events' = 0
             /\ unpairing_events' = 0
             /\ total_paired' = 2 * DoublyOccupied(lattice', size)
             /\ total_electrons' = Occupied(lattice', size)]_vars

\* C15 witness: two accepted moves of which one formed a pair and none broke one
C15_Witness ==
    /\ moves = 2
    /\ pairing_events = 1
    /\ unpairing_events = 0
    /\ last.op = "simulate_step"

\* a simulate_step that returned a proposal (a source, a spin and a target)
StepProposed == StepReturned /\ last'.source # NoneSite

UnitDirections == {<<0, 1>>, <<0, -1>>, <<1, 0>>, <<-1, 0>>}

\* the coordinate one step of dx from x on a ring of n sites
RingStep(x, dx, n) ==
    IF x + dx = n THEN 0 ELSE IF x + dx = -1 THEN n - 1 ELSE x + dx

\* C12: the target of every returned proposal is the source moved by one unit
\* direction on the ring in x and in y: inside 0 .. size-1, +1 from size-1 gives
\* 0 and -1 from 0 gives size-1
C12_PeriodicWrap ==
    [][StepProposed =>
          LET x == last'.source[1]
              y == last'.source[2]
              d == last'.direction
          IN  /\ d \in UnitDirections
              /\ last'.target = <<RingStep(x, d[1], size), RingStep(y, d[2], size)>>
              /\ last'.target \in Sites(size)
              /\ (d[1] = 1 /\ x = size - 1) => last'.target[1] = 0
              /\ (d[1] = -1 /\ x = 0) => last'.target[1] = size - 1
              /\ (d[2] = 1 /\ y = size - 1) => last'.target[2] = 0
              /\ (d[2] = -1 /\ y = 0) => last'.target[2] = size - 1
              /\ d[1] = 0 => last'.target[1] = x
              /\ d[2] = 0 => last'.target[2] = y]_vars

\* C12 witness: on a 3x3 lattice a step of -1 in x from x = 0 has gone to x = 2
C12_Witness ==
    /\ last.op = "simulate_step"
    /\ size = 3
    /\ last.accepted
    /\ last.source = <<0, 1>>
    /\ last.direction = <<-1, 0>>
    /\ last.target = <<2, 1>>

\* line 155 evaluates random.random(): the same-spin target cell is empty and
\* delta_energy is not negative
AcceptanceDrawn(lat, o) == lat[TargetCell(o)] = 0 /\ ProposalDelta(lat, o) >= 0

\* C17 as claimed: every step on a lattice with an occupied cell makes three
\* calls to the random source: site index, direction draw, acceptance draw
C17_AsClaimed ==
    [][StepProposed =>
          /\ Len(last'.calls) = 3
          /\ last'.calls[1] = "np.random.randint"
          /\ last'.direction \in UnitDirections
          /\ last'.r # NoDraw]_vars

\* C17 amended: every step on a lattice with an occupied cell calls
\* np.random.randint (site index), random.random (field draw) and random.choice
\* (direction), in this order, and after them random.random (acceptance draw)
\* only when the same-spin target is empty and delta_energy >= 0: three calls
\* or four
C17_RngOrder ==
    [][StepProposed =>
          /\ last'.field_draw \in 0 .. Scale - 1
          /\ last'.direction \in UnitDirections
          /\ IF AcceptanceDrawn(lattice, last')
             THEN /\ last'.calls = <<"np.random.randint", "random.random",
                                      "random.choice", "random.random">>
                  /\ last'.r \in 0 .. Scale - 1
             ELSE /\ last'.calls = <<"np.random.randint", "random.random", "random.choice">>
                  /\ last'.r = NoDraw]_vars

\* C17 witness: a move off a doubly occupied site onto an empty one was accepted
\* without an acceptance draw, after three calls
C17_Witness ==
    /\ last.op = "simulate_step"
    /\ last.accepted
    /\ last.r = NoDraw
    /\ Len(last.calls) = 3
    /\ unpairing_events = 1
    /\ pairing_events = 0

\* C18: the direction of a proposal whose field draw is below
\* electric_field_strength is one of (0,1), (0,-1), (1,0), never (-1,0); at
\* strength 0 no draw is below it, at strength 1 every draw is, and then no
\* proposal has dx = -1
C18_FieldBias ==
    [][StepProposed =>
          LET r == last'.field_draw
              d == last'.direction
          IN  /\ r \in 0 .. Scale - 1
              /\ r < electric_field_strength => d \in {<<0, 1>>, <<0, -1>>, <<1, 0>>}
              /\ r >= electric_field_strength => d \in UnitDirections
              /\ electric_field_strength = 0 => r >= electric_field_strength
              /\ electric_field_strength = Scale =>
                    r < electric_field_strength /\ d[1] # -1]_vars

\* C18 witness: at strength 0.5 a field draw of 0.5, not below it, was followed
\* by the direction (-1, 0) of the unbiased list
C18_Witness ==
    /\ last.op = "simulate_step"
    /\ electric_field_strength = Scale \div 2
    /\ last.field_draw = Scale \div 2
    /\ last.direction = <<-1, 0>>

\* C19 as claimed: perform_step gets through every outcome simulate_step returns
\* without raising, and counts the outcome (False, None, None, None) as a failed step
C19_AsClaimed ==
    [][(hubbard /\ StepReturned) =>
          /\ slot_raised' = "None"
          /\ last'.source = NoneSite =>
                /\ fail_count' = fail_count + 1
                /\ success_count' = success_count]_vars

\* an accepted move over the x boundary: +1 from x = size-1 to 0, resp. -1 from
\* x = 0 to size-1
WrapsRight(o, n) ==
    o.accepted /\ o.source[1] = n - 1 /\ o.direction[1] = 1 /\ o.target[1] = 0
WrapsLeft(o, n) ==
    o.accepted /\ o.source[1] = 0 /\ o.direction[1] = -1 /\ o.target[1] = n - 1

\* C20 as claimed: a step of perform_step adds 1 to flux exactly when it is an
\* accepted move that wraps in +x, takes 1 off exactly when it is an accepted
\* move that wraps in -x, and leaves flux alone otherwise, on every size
C20_AsClaimed ==
    [][(hubbard /\ StepProposed) =>
          flux' = flux + (IF WrapsRight(last', size) THEN 1
                          ELSE IF WrapsLeft(last', size) THEN -1
                          ELSE 0)]_vars

\* a call of A that took random numbers
TookNumbers == alone' # alone

\* C16 as claimed: whatever B's construction, initializer and steps have been
\* and wherever they fall between A's calls, the numbers a call of A takes, and
\* with them its outcome and lattice, are those A gets from its seed when it
\* runs alone
C16_AsClaimed ==
    [][TookNumbers => generators = alone /\ generators' = alone']_vars

\* occupied cells of one spin layer
LayerCount(lat, n, s) == Cardinality({c \in Cells(n) : c[1] = s /\ lat[c] > 0})

\* C21: once a lattice exists, every call other than a successful initializer,
\* simulate_step included, leaves the number of occupied cells of the up layer
\* and of the down layer as they were; a simulate_step leaves total_electrons as
\* it was, and total_electrons is the number of occupied cells of the lattice
C21_ParticleConservation ==
    [][/\ (lattice # NoLattice /\ ~InitializerSucceeded) =>
             /\ lattice' # NoLattice
             /\ \A s \in {0, 1} :
                   LayerCount(lattice', size, s) = LayerCount(lattice, size, s)
       /\ StepReturned => total_electrons' = total_electrons
       /\ lattice' # NoLattice => total_electrons' = Occupied(lattice', size)]_vars

\* C21 witness: two accepted moves on a lattice holding electrons of both spins
C21_Witness ==
    /\ moves = 2
    /\ last.op = "simulate_step"
    /\ last.accepted
    /\ LayerCount(lattice, size, 0) >= 1
    /\ LayerCount(lattice, size, 1) >= 1
    /\ total_electrons = Occupied(lattice, size)

====
